---- MODULE Spec2Model ----
(***************************************************************************)
(* DevBrowser backend (server.py): the URL security/privacy analyzer       *)
(* (POST /api/analyze) and the history store (POST/DELETE /api/history).   *)
(*                                                                         *)
(* Strings that the code inspects character by character (the URL) are     *)
(* sequences of one-character strings.  Timestamps, titles and favicons    *)
(* are not read by any decision of the code and are left out of the        *)
(* records.                                                                *)
(***************************************************************************)
EXTENDS Integers, Sequences, FiniteSets, TLC

VARIABLES
    apc,            \* position of the analyze_url request: "idle", "fetching", "done"
    input,          \* URLAnalyzeRequest.url
    url,            \* local url of analyze_url (after the prefix test)
    is_https,       \* local is_https of analyze_url
    fetch,          \* outcome of session.head: "none", "ok", "failed"
    response,       \* what analyze_url answers: a SecurityAnalysis or an error
    history,        \* db.history: a set of documents
    next_id,        \* number of ids handed out so far
    hpc,            \* position of each add_history request
    hinput,         \* HistoryCreate.url of each add_history request
    existing,       \* local existing of each add_history request
    hresponse       \* the HistoryEntry each add_history request returned

avars == <<apc, input, url, is_https, fetch, response>>
hvars == <<history, next_id, hpc, hinput, existing, hresponse>>
vars == <<apc, input, url, is_https, fetch, response,
          history, next_id, hpc, hinput, existing, hresponse>>

(***************************************************************************)
(* Bounds                                                                  *)
(***************************************************************************)
MaxTail == 2        \* longest tail appended to an input prefix
MaxVisits == 3      \* visit_count is not driven past this
MaxIds == 3         \* ids handed out by uuid4
NumClients == 2     \* concurrent add_history requests

None == "<None>"

(***************************************************************************)
(* Strings as sequences of characters                                      *)
(***************************************************************************)
HTTP == <<"h", "t", "t", "p", ":", "/", "/">>
HTTPS == <<"h", "t", "t", "p", "s", ":", "/", "/">>

startswith(s, p) == Len(s) >= Len(p) /\ SubSeq(s, 1, Len(p)) = p

Lower(c) ==
    CASE c = "H" -> "h"
      [] c = "T" -> "t"
      [] c = "P" -> "p"
      [] c = "S" -> "s"
      [] OTHER -> c

Letters == {"h", "t", "p", "s", "a", "f", "H", "T", "P", "S"}

\* str.find: the least index holding c, 0 when there is none (1-based)
Find(s, c) ==
    IF \E i \in 1..Len(s) : s[i] = c
    THEN CHOOSE i \in 1..Len(s) : s[i] = c /\ \A j \in 1..(i - 1) : s[j] # c
    ELSE 0

Contains(s, c) == \E i \in 1..Len(s) : s[i] = c

(***************************************************************************)
(* urllib.parse.urlparse, as far as analyze_url uses it: the scheme, and   *)
(* the ValueError it raises on a netloc with brackets.                     *)
(***************************************************************************)
\* [scheme, rest]: the text before the first ':' when it is a scheme
SplitScheme(u) ==
    LET i == Find(u, ":")
    IN  IF i > 1 /\ \A j \in 1..(i - 1) : u[j] \in Letters
        THEN [scheme |-> [j \in 1..(i - 1) |-> Lower(u[j])],
              rest |-> SubSeq(u, i + 1, Len(u))]
        ELSE [scheme |-> <<>>, rest |-> u]

\* the netloc: after a leading '//' up to the first '/'
Netloc(rest) ==
    IF startswith(rest, <<"/", "/">>)
    THEN LET body == SubSeq(rest, 3, Len(rest))
             k == Find(body, "/")
         IN  IF k = 0 THEN body ELSE SubSeq(body, 1, k - 1)
    ELSE <<>>

\* the outcomes urlparse can have on u: TRUE is "raises ValueError".
\* One bracket without the other always raises; a bracketed host raises or
\* not with the host's text and the library version.
UrlparseRaises(u) ==
    LET n == Netloc(SplitScheme(u).rest)
    IN  IF Contains(n, "[") # Contains(n, "]") THEN {TRUE}
        ELSE IF Contains(n, "[") THEN {TRUE, FALSE}
        ELSE {FALSE}

Scheme(u) == SplitScheme(u).scheme

\* lines 189-191
NormalizeUrl(u) ==
    IF ~(startswith(u, HTTP) \/ startswith(u, HTTPS)) THEN HTTPS \o u ELSE u

(***************************************************************************)
(* Inputs                                                                  *)
(***************************************************************************)
TailChars == {"a", "[", "]", "/"}
Tails == UNION {[1..n -> TailChars] : n \in 0..MaxTail}
Prefixes == {<<>>, HTTP, HTTPS,
             <<"H", "T", "T", "P", ":", "/", "/">>,
             <<"h", "t", "t", "p", ":", "/">>,
             <<"f", "t", "p", ":", "/", "/">>}
Inputs == {p \o t : p \in Prefixes, t \in Tails}

(***************************************************************************)
(* Header fetch (lines 200-218)                                            *)
(***************************************************************************)
HeaderNames == {"Strict-Transport-Security", "Content-Security-Policy",
                "X-Frame-Options", "X-Content-Type-Options",
                "Referrer-Policy", "Permissions-Policy"}

\* what headers.get(name) can give: None (no such header), an empty value,
\* a value
RawValues == {None, "", "nosniff"}
RawHeaders == [HeaderNames -> RawValues]

\* dict.get(k): None when k is no key
Get(d, k) == IF k \in DOMAIN d THEN d[k] ELSE None

\* truthiness of an Optional[str]
Truthy(v) == v # None /\ v # ""

\* line 215: {k: v if v else 'Missing' for k, v in security_header_checks.items()}
SecurityHeadersOf(headers) ==
    [k \in HeaderNames |-> IF Truthy(headers[k]) THEN headers[k] ELSE "Missing"]

FetchFailedHeadersAllMissing == [k \in HeaderNames |-> "Missing"]

\* line 218
FetchFailedHeaders == [k \in {"error"} |-> "Could not fetch headers"]

(***************************************************************************)
(* Scoring (lines 220-273).  st is the triple of locals security_score,    *)
(* privacy_score, recommendations.                                         *)
(***************************************************************************)
MsgHttps == "Site does not use HTTPS - traffic is not encrypted"
MsgHsts == "Missing HSTS header - vulnerable to protocol downgrade attacks"
MsgCsp == "Missing CSP header - vulnerable to XSS attacks"
MsgXfo == "Missing X-Frame-Options - vulnerable to clickjacking"
MsgXcto == "Missing X-Content-Type-Options header"
MsgReferrer == "Missing Referrer-Policy - may leak information"
MsgPermissions == "Missing Permissions-Policy header"
MsgExcellent == "Excellent security configuration!"
MsgGood == "Good security, but room for improvement"
MsgAllPassed == "All security checks passed!"

Min(a, b) == IF a <= b THEN a ELSE b

\* lines 221-222, 198
ScoreStart == [security_score |-> 0, privacy_score |-> 0, recommendations |-> <<>>]

\* lines 224-228
CheckHttps(st, https) ==
    IF https
    THEN [st EXCEPT !.security_score = @ + 30, !.privacy_score = @ + 20]
    ELSE [st EXCEPT !.recommendations = Append(@, MsgHttps)]

CheckHstsPenalty(st, security_headers) ==
    IF Get(security_headers, "Strict-Transport-Security") # "Missing"
    THEN [st EXCEPT !.security_score = @ + 15]
    ELSE [st EXCEPT !.security_score = @ - 15,
                    !.recommendations = Append(@, MsgHsts)]

\* lines 231-234
CheckHsts(st, security_headers) ==
    IF Get(security_headers, "Strict-Transport-Security") # "Missing"
    THEN [st EXCEPT !.security_score = @ + 15]
    ELSE [st EXCEPT !.recommendations = Append(@, MsgHsts)]

CheckCspSecurityOnly(st, security_headers) ==
    IF Get(security_headers, "Content-Security-Policy") # "Missing"
    THEN [st EXCEPT !.security_score = @ + 15]
    ELSE [st EXCEPT !.recommendations = Append(@, MsgCsp)]

\* lines 236-240
CheckCsp(st, security_headers) ==
    IF Get(security_headers, "Content-Security-Policy") # "Missing"
    THEN [st EXCEPT !.security_score = @ + 15, !.privacy_score = @ + 15]
    ELSE [st EXCEPT !.recommendations = Append(@, MsgCsp)]

\* lines 242-245
CheckXfo(st, security_headers) ==
    IF Get(security_headers, "X-Frame-Options") # "Missing"
    THEN [st EXCEPT !.security_score = @ + 10]
    ELSE [st EXCEPT !.recommendations = Append(@, MsgXfo)]

\* lines 247-250
CheckXcto(st, security_headers) ==
    IF Get(security_headers, "X-Content-Type-Options") # "Missing"
    THEN [st EXCEPT !.security_score = @ + 10]
    ELSE [st EXCEPT !.recommendations = Append(@, MsgXcto)]

CheckReferrerPrepends(st, security_headers) ==
    IF Get(security_headers, "Referrer-Policy") # "Missing"
    THEN [st EXCEPT !.privacy_score = @ + 15]
    ELSE [st EXCEPT !.recommendations = <<MsgReferrer>> \o @]

\* lines 252-255
CheckReferrer(st, security_headers) ==
    IF Get(security_headers, "Referrer-Policy") # "Missing"
    THEN [st EXCEPT !.privacy_score = @ + 15]
    ELSE [st EXCEPT !.recommendations = Append(@, MsgReferrer)]

CheckPermissionsSmall(st, security_headers) ==
    IF Get(security_headers, "Permissions-Policy") # "Missing"
    THEN [st EXCEPT !.privacy_score = @ + 10]
    ELSE [st EXCEPT !.recommendations = Append(@, MsgPermissions)]

\* lines 257-260
CheckPermissions(st, security_headers) ==
    IF Get(security_headers, "Permissions-Policy") # "Missing"
    THEN [st EXCEPT !.privacy_score = @ + 20]
    ELSE [st EXCEPT !.recommendations = Append(@, MsgPermissions)]

\* lines 263-264
ClampScores(st) ==
    [st EXCEPT !.security_score = Min(@, 100), !.privacy_score = Min(@, 100)]

PositiveFeedbackStrict(st) ==
    IF st.security_score > 80
    THEN [st EXCEPT !.recommendations = <<MsgExcellent>> \o @]
    ELSE IF st.security_score > 60
    THEN [st EXCEPT !.recommendations = <<MsgGood>> \o @]
    ELSE st

\* lines 267-270: recommendations.insert(0, ...)
PositiveFeedback(st) ==
    IF st.security_score >= 80
    THEN [st EXCEPT !.recommendations = <<MsgExcellent>> \o @]
    ELSE IF st.security_score >= 60
    THEN [st EXCEPT !.recommendations = <<MsgGood>> \o @]
    ELSE st

\* lines 272-273
AllPassed(st) ==
    IF st.recommendations = <<>>
    THEN [st EXCEPT !.recommendations = Append(@, MsgAllPassed)]
    ELSE st

\* lines 220-273, in the order the code runs them
ScoreOf(https, security_headers) ==
    LET s1 == CheckHttps(ScoreStart, https)
        s2 == CheckHsts(s1, security_headers)
        s3 == CheckCsp(s2, security_headers)
        s4 == CheckXfo(s3, security_headers)
        s5 == CheckXcto(s4, security_headers)
        s6 == CheckReferrer(s5, security_headers)
        s7 == CheckPermissions(s6, security_headers)
    IN  AllPassed(PositiveFeedback(ClampScores(s7)))

\* lines 275-283
SecurityAnalysis(u, https, security_headers) ==
    LET st == ScoreOf(https, security_headers)
    IN  [kind |-> "result",
         url |-> u,
         https |-> https,
         security_headers |-> security_headers,
         ssl_info |-> None,
         privacy_score |-> st.privacy_score,
         security_score |-> st.security_score,
         recommendations |-> st.recommendations]

NoResponse == [kind |-> "none"]
\* an exception that leaves analyze_url: the framework answers 500
ServerError == [kind |-> "error", status |-> 500]

(***************************************************************************)
(* analyze_url                                                             *)
(***************************************************************************)
\* lines 189-198: normalise, parse; then suspend in session.head, or leave
\* with the ValueError of urlparse, which no handler catches
Analyze(u) ==
    /\ apc = "idle"
    /\ input' = u
    /\ url' = NormalizeUrl(u)
    /\ \E raises \in UrlparseRaises(NormalizeUrl(u)) :
         IF raises
         THEN /\ apc' = "done"
              /\ response' = ServerError
              /\ is_https' = FALSE
         ELSE /\ apc' = "fetching"
              /\ response' = NoResponse
              /\ is_https' = (Scheme(NormalizeUrl(u)) = <<"h", "t", "t", "p", "s">>)
    /\ fetch' = "none"
    /\ UNCHANGED hvars

\* lines 200-215 and 220-283: the HEAD request answers
FetchSucceeds(headers) ==
    /\ apc = "fetching"
    /\ fetch' = "ok"
    /\ response' = SecurityAnalysis(url, is_https, SecurityHeadersOf(headers))
    /\ apc' = "done"
    /\ UNCHANGED <<input, url, is_https>>
    /\ UNCHANGED hvars

\* lines 216-218 and 220-283: the HEAD request raises
FetchFails ==
    /\ apc = "fetching"
    /\ fetch' = "failed"
    /\ response' = SecurityAnalysis(url, is_https, FetchFailedHeaders)
    /\ apc' = "done"
    /\ UNCHANGED <<input, url, is_https>>
    /\ UNCHANGED hvars

\* the response is sent; the next request starts from fresh locals
AnalyzeDone ==
    /\ apc = "done"
    /\ apc' = "idle"
    /\ input' = <<>>
    /\ url' = <<>>
    /\ is_https' = FALSE
    /\ fetch' = "none"
    /\ response' = NoResponse
    /\ UNCHANGED hvars

(***************************************************************************)
(* History store (lines 141-183)                                           *)
(***************************************************************************)
Clients == 1..NumClients
HistoryUrls == {"https://test-site.com", "https://example.org"}

\* None, where the code holds a document or None
NoDoc == [id |-> 0, url |-> "", visit_count |-> 0]

Matching(u) == {d \in history : d.url = u}

\* the document find_one and update_one pick among those matching the url:
\* the first in insertion order
FirstMatching(u) ==
    CHOOSE d \in Matching(u) : \A e \in Matching(u) : d.id <= e.id

\* line 143: db.history.find_one({"url": input.url})
FindOne(u) == IF Matching(u) = {} THEN NoDoc ELSE FirstMatching(u)

\* lines 146-152: update_one with $inc visit_count; no match, no change
UpdateOne(u) ==
    IF Matching(u) = {}
    THEN history
    ELSE (history \ {FirstMatching(u)})
            \cup {[FirstMatching(u) EXCEPT !.visit_count = @ + 1]}

\* line 142-143: the request arrives and awaits find_one
AddHistoryFind(c, u) ==
    /\ hpc[c] = "idle"
    /\ next_id < MaxIds
    /\ \A d \in history : d.visit_count < MaxVisits
    /\ hinput' = [hinput EXCEPT ![c] = u]
    /\ existing' = [existing EXCEPT ![c] = FindOne(u)]
    /\ hpc' = [hpc EXCEPT ![c] = "found"]
    /\ UNCHANGED <<history, next_id, hresponse>>
    /\ UNCHANGED avars

\* lines 145-157: the branch taken when existing is a document
AddHistoryUpdate(c) ==
    /\ hpc[c] = "found"
    /\ existing[c] # NoDoc
    /\ history' = UpdateOne(hinput[c])
    /\ hresponse' = [hresponse EXCEPT
                       ![c] = [existing[c] EXCEPT !.visit_count = @ + 1]]
    /\ hpc' = [hpc EXCEPT ![c] = "returned"]
    /\ UNCHANGED <<next_id, hinput, existing>>
    /\ UNCHANGED avars

\* lines 159-163: the branch taken when existing is None
AddHistoryInsert(c) ==
    /\ hpc[c] = "found"
    /\ existing[c] = NoDoc
    /\ LET doc == [id |-> next_id + 1, url |-> hinput[c], visit_count |-> 1]
       IN  /\ history' = history \cup {doc}
           /\ hresponse' = [hresponse EXCEPT ![c] = doc]
    /\ next_id' = next_id + 1
    /\ hpc' = [hpc EXCEPT ![c] = "returned"]
    /\ UNCHANGED <<hinput, existing>>
    /\ UNCHANGED avars

\* the response is sent; the next request starts from fresh locals
AddHistoryDone(c) ==
    /\ hpc[c] = "returned"
    /\ hpc' = [hpc EXCEPT ![c] = "idle"]
    /\ hinput' = [hinput EXCEPT ![c] = ""]
    /\ existing' = [existing EXCEPT ![c] = NoDoc]
    /\ hresponse' = [hresponse EXCEPT ![c] = NoDoc]
    /\ UNCHANGED <<history, next_id>>
    /\ UNCHANGED avars

\* lines 173-178: delete_one({"id": history_id}); 404 when nothing matched
DeleteHistory(i) ==
    /\ \E d \in history : d.id = i
    /\ history' = {d \in history : d.id # i}
    /\ UNCHANGED <<next_id, hpc, hinput, existing, hresponse>>
    /\ UNCHANGED avars

\* lines 180-183: delete_many({})
ClearHistory ==
    /\ history # {}
    /\ history' = {}
    /\ UNCHANGED <<next_id, hpc, hinput, existing, hresponse>>
    /\ UNCHANGED avars

(***************************************************************************)
(* Specifications                                                          *)
(***************************************************************************)
Init ==
    /\ apc = "idle"
    /\ input = <<>>
    /\ url = <<>>
    /\ is_https = FALSE
    /\ fetch = "none"
    /\ response = NoResponse
    /\ history = {}
    /\ next_id = 0
    /\ hpc = [c \in Clients |-> "idle"]
    /\ hinput = [c \in Clients |-> ""]
    /\ existing = [c \in Clients |-> NoDoc]
    /\ hresponse = [c \in Clients |-> NoDoc]

\* the analyzer: one request after another, each independent of the others
Next ==
    \/ \E u \in Inputs : Analyze(u)
    \/ \E h \in RawHeaders : FetchSucceeds(h)
    \/ FetchFails
    \/ AnalyzeDone

Spec == Init /\ [][Next]_vars

\* the history endpoints, their requests interleaving at every await
NextHistory ==
    \/ \E c \in Clients, u \in HistoryUrls : AddHistoryFind(c, u)
    \/ \E c \in Clients : AddHistoryUpdate(c)
    \/ \E c \in Clients : AddHistoryInsert(c)
    \/ \E c \in Clients : AddHistoryDone(c)
    \/ \E i \in 1..MaxIds : DeleteHistory(i)
    \/ ClearHistory

SpecHistory == Init /\ [][NextHistory]_vars

\* add_history alone: concurrent requests, no delete in between
NextAddHistory ==
    \/ \E c \in Clients, u \in HistoryUrls : AddHistoryFind(c, u)
    \/ \E c \in Clients : AddHistoryUpdate(c)
    \/ \E c \in Clients : AddHistoryInsert(c)
    \/ \E c \in Clients : AddHistoryDone(c)

SpecAddHistory == Init /\ [][NextAddHistory]_vars

(***************************************************************************)
(* Properties                                                              *)
(***************************************************************************)
InSeq(m, seq) == \E i \in 1..Len(seq) : seq[i] = m

\* analyze_url has returned a SecurityAnalysis
Returned == apc = "done" /\ response.kind = "result"

AllPresent(h) == \A k \in HeaderNames : k \in DOMAIN h /\ h[k] # "Missing"
AllMissing(h) == \A k \in HeaderNames : k \in DOMAIN h /\ h[k] = "Missing"

HeaderMessages == {MsgHsts, MsgCsp, MsgXfo, MsgXcto, MsgReferrer, MsgPermissions}

\* the seven failure messages in the order of the rule table
FailureOrder ==
    <<MsgHttps, MsgHsts, MsgCsp, MsgXfo, MsgXcto, MsgReferrer, MsgPermissions>>

\* C1 (as claimed): when the header fetch fails, every header counts as
\* absent: the six header failure messages are all recommended (and the
\* HTTPS one when isHttps is false), no positive-feedback message is there,
\* and securityScore is at most 30.
C1_FailedFetchScoresAllAbsent ==
    (Returned /\ fetch = "failed") =>
        /\ \A m \in HeaderMessages : InSeq(m, response.recommendations)
        /\ ~response.https => InSeq(MsgHttps, response.recommendations)
        /\ ~InSeq(MsgExcellent, response.recommendations)
        /\ ~InSeq(MsgGood, response.recommendations)
        /\ response.security_score <= 30

\* C2 (as claimed): every input URL string yields an AnalysisResult, never
\* an error response.
C2_EveryInputYieldsResult ==
    apc = "done" => response.kind = "result"

\* C3: when the header fetch fails, analyze_url still returns a full result:
\* securityHeaders is exactly {"error": "Could not fetch headers"}, none of
\* the six header names is a key, and url and isHttps are those of the
\* normalization.
C3_FailedFetchStillReturns ==
    (apc = "done" /\ fetch = "failed") =>
        /\ response.kind = "result"
        /\ DOMAIN response = {"kind", "url", "https", "security_headers", "ssl_info",
                              "privacy_score", "security_score", "recommendations"}
        /\ DOMAIN response.security_headers = {"error"}
        /\ response.security_headers["error"] = "Could not fetch headers"
        /\ HeaderNames \cap DOMAIN response.security_headers = {}
        /\ response.url = (IF startswith(input, HTTP) \/ startswith(input, HTTPS)
                           THEN input ELSE HTTPS \o input)
        /\ response.https = startswith(response.url, HTTPS)
        /\ response.recommendations # <<>>

C3_Witness ==
    /\ Returned
    /\ fetch = "failed"
    /\ ~response.https
    /\ DOMAIN response.security_headers = {"error"}

\* C4: in every result, whatever isHttps and the outcome of the fetch,
\* securityScore and privacyScore are integers within [0,100].
C4_ScoresInRange ==
    Returned =>
        /\ response.security_score \in 0..100
        /\ response.privacy_score \in 0..100

C4_Witness ==
    /\ Returned
    /\ fetch = "ok"
    /\ ~response.https
    /\ response.security_headers["Strict-Transport-Security"] = "Missing"
    /\ response.security_headers["Permissions-Policy"] # "Missing"
    /\ response.security_score \in 0..100
    /\ response.privacy_score \in 0..100

\* C5 (as claimed): isHttps true and all six headers present give
\* securityScore = 100, privacyScore = 70 and recommendations equal to
\* ["Excellent security configuration!"].
C5_AllPresentHttpsScores100 ==
    (Returned /\ fetch = "ok" /\ response.https /\ AllPresent(response.security_headers)) =>
        /\ response.security_score = 100
        /\ response.privacy_score = 70
        /\ response.recommendations = <<MsgExcellent>>

\* C5 (amended): isHttps true and all six headers present give
\* securityScore = 80 (30+15+15+10+10), privacyScore = 70 and recommendations
\* equal to ["Excellent security configuration!"].
C5_AllPresentHttpsScores80 ==
    (Returned /\ fetch = "ok" /\ response.https /\ AllPresent(response.security_headers)) =>
        /\ response.security_score = 80
        /\ response.privacy_score = 70
        /\ response.recommendations = <<MsgExcellent>>

C5_Witness ==
    /\ Returned
    /\ fetch = "ok"
    /\ response.https
    /\ AllPresent(response.security_headers)

\* C6: isHttps false and all six headers "Missing" give securityScore = 0,
\* privacyScore = 0 and exactly the seven failure messages in rule-table
\* order, nothing prepended.
C6_AllMissingHttp ==
    (Returned /\ fetch = "ok" /\ ~response.https /\ AllMissing(response.security_headers)) =>
        /\ response.security_score = 0
        /\ response.privacy_score = 0
        /\ response.recommendations = FailureOrder

C6_Witness ==
    /\ Returned
    /\ fetch = "ok"
    /\ ~response.https
    /\ AllMissing(response.security_headers)

ScoredAt(n) == [security_score |-> n, privacy_score |-> 0, recommendations |-> <<>>]

\* C7: the positive-feedback message depends on securityScore alone: the
\* first recommendation is the "Excellent" message iff securityScore >= 80,
\* the "Good" message iff 60 <= securityScore < 80, and neither message is
\* anywhere in the list when securityScore < 60; 60 and 80 select a message,
\* 59 and 79 do not select the one above them.
C7_FeedbackByScore ==
    /\ Returned =>
        /\ response.recommendations # <<>>
        /\ (response.recommendations[1] = MsgExcellent) <=> (response.security_score >= 80)
        /\ (response.recommendations[1] = MsgGood) <=>
               (response.security_score >= 60 /\ response.security_score < 80)
        /\ response.security_score < 60 =>
               /\ ~InSeq(MsgExcellent, response.recommendations)
               /\ ~InSeq(MsgGood, response.recommendations)
    /\ PositiveFeedback(ScoredAt(59)).recommendations = <<>>
    /\ PositiveFeedback(ScoredAt(60)).recommendations = <<MsgGood>>
    /\ PositiveFeedback(ScoredAt(79)).recommendations = <<MsgGood>>
    /\ PositiveFeedback(ScoredAt(80)).recommendations = <<MsgExcellent>>

C7_Witness ==
    /\ Returned
    /\ response.security_score = 60
    /\ response.recommendations[1] = MsgGood

\* C8 (as claimed): for every input that does not begin with 'http://' or
\* 'https://', analyze_url reports the URL 'https://' + input and
\* isHttps = true; for every input, isHttps is true iff the scheme of the
\* normalized URL is 'https', so false exactly for inputs beginning with
\* 'http://'.
C8_SchemeDefaultsToHttps ==
    apc = "done" =>
        /\ response.kind = "result"
        /\ ~(startswith(input, HTTP) \/ startswith(input, HTTPS)) =>
               (response.url = HTTPS \o input /\ response.https)
        /\ response.https <=> (Scheme(response.url) = <<"h", "t", "t", "p", "s">>)
        /\ ~response.https <=> startswith(input, HTTP)

\* C9 (as claimed): add_history for a URL that already has an entry creates
\* no entry: the number of entries is unchanged, the stored visit_count goes
\* up by exactly 1, and the returned entry carries that same incremented
\* visit_count, greater than 1.
C9_DuplicateIncrements ==
    [][\A c \in Clients :
        (/\ hpc[c] = "found"
         /\ hpc'[c] = "returned"
         /\ existing[c] # NoDoc
         /\ Matching(hinput[c]) # {})
        => /\ Cardinality(history') = Cardinality(history)
           /\ \E d \in history, e \in history' :
                /\ d.url = hinput[c]
                /\ e.id = d.id
                /\ e.visit_count = d.visit_count + 1
                /\ hresponse'[c].visit_count = e.visit_count
                /\ hresponse'[c].visit_count > 1]_vars

\* the rule table: condition, securityScore delta, privacyScore delta,
\* recommendation when the condition fails
RuleTable(https, h) ==
    << [pass |-> https, sec |-> 30, priv |-> 20, msg |-> MsgHttps],
       [pass |-> h["Strict-Transport-Security"] # "Missing",
        sec |-> 15, priv |-> 0, msg |-> MsgHsts],
       [pass |-> h["Content-Security-Policy"] # "Missing",
        sec |-> 15, priv |-> 15, msg |-> MsgCsp],
       [pass |-> h["X-Frame-Options"] # "Missing",
        sec |-> 10, priv |-> 0, msg |-> MsgXfo],
       [pass |-> h["X-Content-Type-Options"] # "Missing",
        sec |-> 10, priv |-> 0, msg |-> MsgXcto],
       [pass |-> h["Referrer-Policy"] # "Missing",
        sec |-> 0, priv |-> 15, msg |-> MsgReferrer],
       [pass |-> h["Permissions-Policy"] # "Missing",
        sec |-> 0, priv |-> 20, msg |-> MsgPermissions] >>

RECURSIVE SumSec(_, _)
SumSec(t, n) ==
    IF n = 0 THEN 0
    ELSE SumSec(t, n - 1) + (IF t[n].pass THEN t[n].sec ELSE 0)

RECURSIVE SumPriv(_, _)
SumPriv(t, n) ==
    IF n = 0 THEN 0
    ELSE SumPriv(t, n - 1) + (IF t[n].pass THEN t[n].priv ELSE 0)

RECURSIVE Failures(_, _)
Failures(t, n) ==
    IF n = 0 THEN <<>>
    ELSE IF t[n].pass THEN Failures(t, n - 1)
    ELSE Append(Failures(t, n - 1), t[n].msg)

\* the list without a leading positive-feedback message
WithoutFeedback(recs) ==
    IF recs # <<>> /\ recs[1] \in {MsgExcellent, MsgGood} THEN Tail(recs) ELSE recs

\* C10: after a successful fetch the seven rules are evaluated
\* independently: securityScore is the sum of the security deltas of the
\* passing rules, privacyScore the sum of their privacy deltas, and a rule's
\* failure message is recommended iff the rule fails, the failure messages
\* in rule-table order behind any positive-feedback message.
C10_RulesIndependent ==
    (Returned /\ fetch = "ok") =>
        LET t == RuleTable(response.https, response.security_headers)
        IN  /\ response.security_score = SumSec(t, 7)
            /\ response.privacy_score = SumPriv(t, 7)
            /\ \A i \in 1..7 : InSeq(t[i].msg, response.recommendations) <=> ~t[i].pass
            /\ WithoutFeedback(response.recommendations) = Failures(t, 7)

C10_Witness ==
    /\ Returned
    /\ fetch = "ok"
    /\ response.https
    /\ response.security_headers["Strict-Transport-Security"] = "Missing"
    /\ response.security_headers["Content-Security-Policy"] # "Missing"
    /\ response.security_headers["Referrer-Policy"] = "Missing"
    /\ response.security_score = 65
    /\ response.recommendations = <<MsgGood, MsgHsts, MsgReferrer>>

\* C11 (as claimed): under any interleaving of concurrent add_history calls,
\* with no deletes, the history store holds at most one entry per URL: two
\* concurrent calls for the same not-yet-stored URL never both insert.
C11_OneEntryPerUrl ==
    \A u \in HistoryUrls : Cardinality(Matching(u)) <= 1

====
